---- MODULE Spec2Model ----
(***************************************************************************)
(* Model of the weather API (src/weather/api): the forecast override store *)
(* (model Cache), the request validators (serializers.py), the cache       *)
(* middleware, the provider chain (providers.py, services.py) and the      *)
(* three HTTP handlers (views.py).                                         *)
(*                                                                         *)
(* Encodings.  A text value is a tuple of characters.  A request parameter *)
(* is Absent (<<>>) or Some(v) (<<v>>).  A date on the wire is a tuple     *)
(* <<sep, n1, n2, n3>>: "DD.MM.YYYY" is <<".", d, m, y>> and "YYYY-MM-DD"  *)
(* is <<"-", y, m, d>>.  A date object is a record [year, month, day].     *)
(* A JSON number n is <<n>> and JSON null is <<>>.                         *)
(***************************************************************************)
EXTENDS Integers, Sequences, FiniteSets, TLC

(* ------------------------------ bounds -------------------------------- *)

\* temperatures a POST payload carries: 0..MaxTemp
MaxTemp == 1

\* rows the override table may hold (caps the inserts of the model)
MaxRows == 2

(* ------------------------- program constants -------------------------- *)

\* CharField(max_length=20)
MaxCityLength == 20

\* max_date = today + timedelta(days=10)
WindowDays == 10

\* &forecast_days=10
ForecastDays == 10

\* APIException.status_code, the status of every APIException the views raise
ApiExceptionStatus == 500

\* NotFound.status_code
NotFoundStatus == 404

\* serializers.ValidationError.status_code
ValidationStatus == 400

(* ----------------------------- parameters ----------------------------- *)

Absent == <<>>

Some(v) == <<v>>

(* ------------------------------ calendar ------------------------------ *)

Date(y, m, d) == [year |-> y, month |-> m, day |-> d]

IsLeap(y) == (y % 4 = 0 /\ y % 100 # 0) \/ y % 400 = 0

DaysInMonth(y, m) ==
  IF m = 2 THEN (IF IsLeap(y) THEN 29 ELSE 28)
  ELSE IF m \in {4, 6, 9, 11} THEN 30 ELSE 31

NextDay(dt) ==
  IF dt.day < DaysInMonth(dt.year, dt.month) THEN Date(dt.year, dt.month, dt.day + 1)
  ELSE IF dt.month < 12 THEN Date(dt.year, dt.month + 1, 1)
  ELSE Date(dt.year + 1, 1, 1)

PrevDay(dt) ==
  IF dt.day > 1 THEN Date(dt.year, dt.month, dt.day - 1)
  ELSE IF dt.month > 1 THEN Date(dt.year, dt.month - 1, DaysInMonth(dt.year, dt.month - 1))
  ELSE Date(dt.year - 1, 12, 31)

RECURSIVE AddDays(_, _)
\* date + timedelta(days=n)
AddDays(dt, n) ==
  IF n = 0 THEN dt
  ELSE IF n > 0 THEN AddDays(NextDay(dt), n - 1)
  ELSE AddDays(PrevDay(dt), n + 1)

\* a < b on date objects
DateLess(a, b) ==
  \/ a.year < b.year
  \/ a.year = b.year /\ a.month < b.month
  \/ a.year = b.year /\ a.month = b.month /\ a.day < b.day

\* str(date): "YYYY-MM-DD"
IsoString(dt) == <<"-", dt.year, dt.month, dt.day>>

\* the wire form "DD.MM.YYYY" of a date
WireString(dt) == <<".", dt.day, dt.month, dt.year>>

\* date.today(): the server's calendar day while the requests are handled
Today == Date(2024, 2, 20)

(* ----------------------------- validation ----------------------------- *)

Valid(v) == [ok |-> TRUE, value |-> <<v>>]

Invalid == [ok |-> FALSE, value |-> <<>>]

RECURSIVE LStrip(_)
LStrip(s) == IF s # <<>> /\ Head(s) = " " THEN LStrip(Tail(s)) ELSE s

RECURSIVE RStrip(_)
RStrip(s) == IF s # <<>> /\ s[Len(s)] = " " THEN RStrip(SubSeq(s, 1, Len(s) - 1)) ELSE s

\* str.strip()
Strip(s) == RStrip(LStrip(s))

\* CharField(required=True, max_length=20): required, not blank, whitespace
\* trimmed before the length validator runs
CityField(param) ==
  IF param = Absent THEN Invalid
  ELSE IF Strip(param[1]) = <<>> THEN Invalid
  ELSE IF Len(Strip(param[1])) > MaxCityLength THEN Invalid
  ELSE Valid(Strip(param[1]))

\* DateField(required=True, input_formats=['%d.%m.%Y'])
DateField(param) ==
  IF param = Absent THEN Invalid
  ELSE LET w == param[1] IN
    IF w[1] # "." THEN Invalid
    ELSE IF w[3] \notin 1..12 THEN Invalid
    ELSE IF w[2] \notin 1..DaysInMonth(w[4], w[3]) THEN Invalid
    ELSE Valid(Date(w[4], w[3], w[2]))

\* validate_date as it would be with >= in place of > on the upper bound
validate_date_Exclusive(value) ==
  LET max_date == AddDays(Today, WindowDays) IN
  IF DateLess(value, Today) THEN Invalid
  ELSE IF DateLess(max_date, value) \/ value = max_date THEN Invalid
  ELSE Valid(value)

\* validate_date of both serializers (the two bodies are the same)
validate_date(value) ==
  LET max_date == AddDays(Today, WindowDays) IN
  IF DateLess(value, Today) THEN Invalid
  ELSE IF DateLess(max_date, value) THEN Invalid
  ELSE Valid(value)

\* the date field with its validate_date hook
ValidatedDate(param) ==
  LET parsed == DateField(param) IN
  IF parsed.ok THEN validate_date(parsed.value[1]) ELSE Invalid

\* FloatField(required=True)
FloatField(param) == IF param = Absent THEN Invalid ELSE Valid(param[1])

\* validate as it would be without the comparison
validate_Skipped(attrs) == Valid(attrs)

\* ForecastCacheWeatherSerializer.validate: the object-level check
validate(attrs) ==
  IF attrs.min_temperature > attrs.max_temperature THEN Invalid ELSE Valid(attrs)

\* CurrentWeatherSerializer.is_valid
CurrentWeatherSerializer(q) ==
  LET city == CityField(q.city) IN
  IF city.ok THEN Valid([city |-> city.value[1]]) ELSE Invalid

\* ForecastWeatherSerializer.is_valid: every field is validated
ForecastWeatherSerializer(q) ==
  LET city == CityField(q.city)
      date == ValidatedDate(q.date)
  IN IF city.ok /\ date.ok
     THEN Valid([city |-> city.value[1], date |-> date.value[1]])
     ELSE Invalid

\* ForecastCacheWeatherSerializer.is_valid: validate() runs only when every
\* field passed
ForecastCacheWeatherSerializer(q) ==
  LET city == CityField(q.city)
      date == ValidatedDate(q.date)
      min_temperature == FloatField(q.min_temperature)
      max_temperature == FloatField(q.max_temperature)
  IN IF city.ok /\ date.ok /\ min_temperature.ok /\ max_temperature.ok
     THEN validate([city |-> city.value[1],
                    date |-> date.value[1],
                    min_temperature |-> min_temperature.value[1],
                    max_temperature |-> max_temperature.value[1]])
     ELSE Invalid

(* --------------------------- override store --------------------------- *)

\* a row of model Cache (no uniqueness constraint on (city, date))
Row(city, date, min, max) ==
  [city |-> city, date |-> date, min_temperature |-> min, max_temperature |-> max]

\* the rows objects.filter(city=city, date=date) selects
Matching(rows, city, date) ==
  {i \in DOMAIN rows : rows[i].city = city /\ rows[i].date = date}

\* CacheRepo().get: objects.get, DoesNotExist turned into None,
\* MultipleObjectsReturned left to propagate
CacheRepoGet(rows, city, date) ==
  LET m == Matching(rows, city, date) IN
  IF m = {} THEN [raised |-> FALSE, found |-> FALSE, row |-> <<>>]
  ELSE IF Cardinality(m) = 1
       THEN [raised |-> FALSE, found |-> TRUE, row |-> <<rows[CHOOSE i \in m : TRUE]>>]
       ELSE [raised |-> TRUE, found |-> FALSE, row |-> <<>>]

\* objects.create(**lookup, **defaults)
InsertRow(rows, attrs) ==
  Append(rows, Row(attrs.city, attrs.date, attrs.min_temperature, attrs.max_temperature))

\* UpdateRow as it would be with max_temperature left out of the defaults
UpdateRow_MinOnly(rows, i, attrs) ==
  [rows EXCEPT ![i] = [@ EXCEPT !.min_temperature = attrs.min_temperature]]

\* UpdateRow as it would be with the defaults written to every row of the
\* table
UpdateRow_AllRows(rows, i, attrs) ==
  [j \in DOMAIN rows |-> [rows[j] EXCEPT !.min_temperature = attrs.min_temperature,
                                         !.max_temperature = attrs.max_temperature]]

\* setattr(obj, k, v) for the defaults, then obj.save()
UpdateRow(rows, i, attrs) ==
  [rows EXCEPT ![i] = [@ EXCEPT !.min_temperature = attrs.min_temperature,
                                !.max_temperature = attrs.max_temperature]]

\* create_or_update as it would be with objects.create in place of
\* update_or_create
create_or_update_AlwaysInsert(rows, attrs) ==
  [raised |-> FALSE, created |-> TRUE, rows |-> InsertRow(rows, attrs)]

\* CacheRepo().create_or_update run on its own: objects.update_or_create
create_or_update(rows, attrs) ==
  LET m == Matching(rows, attrs.city, attrs.date) IN
  IF m = {} THEN [raised |-> FALSE, created |-> TRUE, rows |-> InsertRow(rows, attrs)]
  ELSE IF Cardinality(m) = 1
       THEN [raised |-> FALSE, created |-> FALSE,
             rows |-> UpdateRow(rows, CHOOSE i \in m : TRUE, attrs)]
       ELSE [raised |-> TRUE, created |-> FALSE, rows |-> rows]

(* ------------------------------ upstream ------------------------------ *)

\* a JSON number
Num(n) == <<n>>

\* JSON null
Null == <<>>

\* the exception classes of requests a failed call raises
TransportFaults == {"ConnectionError", "ConnectTimeout", "ReadTimeout", "HTTPError", "JSONDecodeError"}

\* isinstance(e, requests.exceptions.ConnectionError)
IsConnectionError(e) == e \in {"ConnectionError", "ConnectTimeout"}

\* isinstance(e, requests.exceptions.Timeout)
IsTimeout(e) == e \in {"ConnectTimeout", "ReadTimeout"}

\* the except chain every upstream call ends with
ExceptStatus(e) ==
  IF IsConnectionError(e) THEN 503
  ELSE IF IsTimeout(e) THEN 504
  ELSE 500

\* what a provider hands back: (status, data), or an exception it lets through
Outcome(status, data, geo_calls, forecast_calls) ==
  [raised |-> FALSE, status |-> status, data |-> data,
   geo_calls |-> geo_calls, forecast_calls |-> forecast_calls]

Raised(geo_calls, forecast_calls) ==
  [raised |-> TRUE, status |-> 0, data |-> <<>>,
   geo_calls |-> geo_calls, forecast_calls |-> forecast_calls]

\* OpenMeteoWeatherProvider._get_geocoding; geo is the upstream's answer:
\* [fault |-> a transport fault or "none", results |-> Absent or Some(list)]
get_geocoding(geo) ==
  IF geo.fault # "none" THEN Outcome(ExceptStatus(geo.fault), <<>>, 1, 0)
  ELSE IF geo.results = Absent \/ geo.results[1] = <<>> THEN Outcome(404, <<>>, 1, 0)
  ELSE LET result == geo.results[1][1] IN
    IF result.latitude = Absent \/ result.longitude = Absent THEN Raised(1, 0)
    ELSE Outcome(200,
                 <<[latitude |-> result.latitude[1], longitude |-> result.longitude[1],
                    timezone |-> IF result.timezone = Absent THEN "auto"
                                 ELSE result.timezone[1]]>>,
                 1, 0)

\* FirstIndex as it would be counting the entries from one too far
RECURSIVE FirstIndex_Shifted(_, _, _)
FirstIndex_Shifted(dates, s, i) ==
  IF i > Len(dates) THEN 0
  ELSE IF dates[i] = s THEN i + 1
  ELSE FirstIndex_Shifted(dates, s, i + 1)

\* index of the first entry of dates equal to s, 0 when there is none
RECURSIVE FirstIndex(_, _, _)
FirstIndex(dates, s, i) ==
  IF i > Len(dates) THEN 0
  ELSE IF dates[i] = s THEN i
  ELSE FirstIndex(dates, s, i + 1)

\* OpenMeteoForecast as it would be asking the forecast endpoint a second
\* time after a transport fault
OpenMeteoForecast_Retry(date, geo, fc) ==
  LET g == get_geocoding(geo) IN
  IF g.raised THEN g
  ELSE IF g.status # 200 \/ g.data = <<>> THEN Outcome(g.status, <<>>, 1, 0)
  ELSE IF fc.fault # "none" THEN Outcome(ExceptStatus(fc.fault), <<>>, 1, 2)
  ELSE IF fc.daily = Absent THEN Outcome(500, <<>>, 1, 1)
  ELSE LET dates == fc.daily[1].time
           min_temps == fc.daily[1].temperature_2m_min
           max_temps == fc.daily[1].temperature_2m_max
           i == FirstIndex(dates, IsoString(date), 1)
       IN
    IF dates = <<>> \/ min_temps = <<>> \/ max_temps = <<>> THEN Outcome(500, <<>>, 1, 1)
    ELSE IF i = 0 THEN Outcome(404, <<>>, 1, 1)
    ELSE IF i > Len(min_temps) \/ i > Len(max_temps) THEN Raised(1, 1)
    ELSE Outcome(200, <<min_temps[i], max_temps[i]>>, 1, 1)

\* OpenMeteoWeatherProvider.get_forecast_weather; fc is the forecast
\* endpoint's answer: [fault, daily |-> Absent or Some([time, min, max])]
OpenMeteoForecast(date, geo, fc) ==
  LET g == get_geocoding(geo) IN
  IF g.raised THEN g
  ELSE IF g.status # 200 \/ g.data = <<>> THEN Outcome(g.status, <<>>, 1, 0)
  ELSE IF fc.fault # "none" THEN Outcome(ExceptStatus(fc.fault), <<>>, 1, 1)
  ELSE IF fc.daily = Absent THEN Outcome(500, <<>>, 1, 1)
  ELSE LET dates == fc.daily[1].time
           min_temps == fc.daily[1].temperature_2m_min
           max_temps == fc.daily[1].temperature_2m_max
           i == FirstIndex(dates, IsoString(date), 1)
       IN
    IF dates = <<>> \/ min_temps = <<>> \/ max_temps = <<>> THEN Outcome(500, <<>>, 1, 1)
    ELSE IF i = 0 THEN Outcome(404, <<>>, 1, 1)
    ELSE IF i > Len(min_temps) \/ i > Len(max_temps) THEN Raised(1, 1)
    ELSE Outcome(200, <<min_temps[i], max_temps[i]>>, 1, 1)

\* OpenMeteoCurrent as it would be without the check of the geocoding status
OpenMeteoCurrent_IgnoresGeo(geo, wx) ==
  LET g == get_geocoding(geo) IN
  IF g.raised THEN g
  ELSE IF wx.fault # "none" THEN Outcome(ExceptStatus(wx.fault), <<>>, 1, 1)
  ELSE IF wx.current_weather = Absent THEN Outcome(500, <<>>, 1, 1)
  ELSE IF wx.current_weather[1].temperature = Absent THEN Outcome(500, <<>>, 1, 1)
  ELSE Outcome(200, <<wx.current_weather[1].temperature[1]>>, 1, 1)

\* OpenMeteoWeatherProvider.get_current_weather; wx is the forecast
\* endpoint's answer: [fault, current_weather |-> Absent or Some([temperature])]
OpenMeteoCurrent(geo, wx) ==
  LET g == get_geocoding(geo) IN
  IF g.raised THEN g
  ELSE IF g.status # 200 \/ g.data = <<>> THEN Outcome(g.status, <<>>, 1, 0)
  ELSE IF wx.fault # "none" THEN Outcome(ExceptStatus(wx.fault), <<>>, 1, 1)
  ELSE IF wx.current_weather = Absent THEN Outcome(500, <<>>, 1, 1)
  ELSE IF wx.current_weather[1].temperature = Absent THEN Outcome(500, <<>>, 1, 1)
  ELSE Outcome(200, <<wx.current_weather[1].temperature[1]>>, 1, 1)

\* CacheForecast as it would be with the lookup result ignored
CacheForecast_Miss(rows, city, date) == Outcome(404, <<>>, 0, 0)

\* CacheWeatherProvider.get_forecast_weather
CacheForecast(rows, city, date) ==
  LET c == CacheRepoGet(rows, city, date) IN
  IF c.raised THEN Raised(0, 0)
  ELSE IF c.found
       THEN Outcome(200, <<Num(c.row[1].min_temperature), Num(c.row[1].max_temperature)>>, 0, 0)
       ELSE Outcome(404, <<>>, 0, 0)

(* --------------------------- provider chain --------------------------- *)

\* ServiceLoop as it would be returning inside the loop whatever the status
ServiceLoop_FirstOnly(answers, i) ==
  LET a == answers[i] IN
  IF a.raised THEN [raised |-> TRUE, status |-> 0, data |-> <<>>, queried |-> i]
  ELSE IF a.status = 200
       THEN [raised |-> FALSE, status |-> a.status, data |-> a.data, queried |-> i]
       ELSE [raised |-> FALSE, status |-> a.status, data |-> <<>>, queried |-> i]

\* the loop of WeatherService.get_current_weather / get_forecast_weather
\* over the providers' answers, from provider i on; queried counts the
\* providers asked
RECURSIVE ServiceLoop(_, _)
ServiceLoop(answers, i) ==
  LET a == answers[i] IN
  IF a.raised THEN [raised |-> TRUE, status |-> 0, data |-> <<>>, queried |-> i]
  ELSE IF a.status = 200
       THEN [raised |-> FALSE, status |-> a.status, data |-> a.data, queried |-> i]
  ELSE IF i = Len(answers)
       THEN [raised |-> FALSE, status |-> a.status, data |-> <<>>, queried |-> i]
  ELSE ServiceLoop(answers, i + 1)

\* WeatherService over a non-empty provider list
WeatherService(answers) == ServiceLoop(answers, 1)

RECURSIVE SumCalls(_, _, _)
\* upstream calls made by the first n providers of the list
SumCalls(answers, n, f) ==
  IF n = 0 THEN 0 ELSE SumCalls(answers, n - 1, f) + answers[n][f]

(* ------------------------------ handlers ------------------------------ *)

\* an HTTP response with what producing it cost: by is the layer that
\* answered, error the exception class behind a non-200 answer,
\* provider_status the status the provider chain returned (0: not asked, or
\* it raised)
Response(status, data, by, error, provider_status, geo_calls, forecast_calls) ==
  [status |-> status, data |-> data, by |-> by, error |-> error,
   provider_status |-> provider_status,
   geo_calls |-> geo_calls, forecast_calls |-> forecast_calls]

\* handle_error of both views: NotFound carries 404, every APIException
\* carries APIException.status_code whatever code= it is given
handle_error(status_code) ==
  CASE status_code = 404 -> [status |-> NotFoundStatus, error |-> "NotFound"]
    [] status_code = 503 -> [status |-> ApiExceptionStatus, error |-> "APIException"]
    [] status_code = 504 -> [status |-> ApiExceptionStatus, error |-> "APIException"]
    [] status_code = 500 -> [status |-> ApiExceptionStatus, error |-> "APIException"]
    [] OTHER -> [status |-> ApiExceptionStatus, error |-> "APIException"]

\* FloatField of a response serializer: null is refused
ResponseFloatsValid(data) == \A i \in DOMAIN data : data[i] # Null

\* the part of both get() methods after the service answered
Respond(svc, geo_calls, forecast_calls) ==
  IF svc.raised
  THEN Response(500, <<>>, "view", "unhandled", 0, geo_calls, forecast_calls)
  ELSE IF svc.status = 200
       THEN IF ResponseFloatsValid(svc.data)
            THEN Response(200, svc.data, "view", "none", 200, geo_calls, forecast_calls)
            ELSE Response(ValidationStatus, <<>>, "view", "ResponseValidationError", 200,
                          geo_calls, forecast_calls)
       ELSE Response(handle_error(svc.status).status, <<>>, "view",
                     handle_error(svc.status).error, svc.status, geo_calls, forecast_calls)

\* CurrentWeatherView.get with providers=[OpenMeteoWeatherProvider()]
CurrentWeatherView_get(q, geo, wx) ==
  LET ser == CurrentWeatherSerializer(q) IN
  IF ~ser.ok THEN Response(ValidationStatus, <<>>, "view", "ValidationError", 0, 0, 0)
  ELSE LET answers == <<OpenMeteoCurrent(geo, wx)>>
           svc == WeatherService(answers)
       IN Respond(svc, SumCalls(answers, svc.queried, "geo_calls"),
                  SumCalls(answers, svc.queried, "forecast_calls"))

\* ForecastWeatherView.get with providers=[CacheWeatherProvider(),
\* OpenMeteoWeatherProvider()]
ForecastWeatherView_get(rows, q, geo, fc) ==
  LET ser == ForecastWeatherSerializer(q) IN
  IF ~ser.ok THEN Response(ValidationStatus, <<>>, "view", "ValidationError", 0, 0, 0)
  ELSE LET v == ser.value[1]
           answers == <<CacheForecast(rows, v.city, v.date), OpenMeteoForecast(v.date, geo, fc)>>
           svc == WeatherService(answers)
       IN Respond(svc, SumCalls(answers, svc.queried, "geo_calls"),
                  SumCalls(answers, svc.queried, "forecast_calls"))

\* CacheMiddleware.__call__ for a GET; path_matches: request.path is
\* '/api/weather/forecast/' (the URL the view is mounted at is set outside
\* this package)
CacheMiddleware(rows, path_matches, q, geo, fc) ==
  IF path_matches
  THEN LET ser == ForecastWeatherSerializer(q) IN
    IF ~ser.ok THEN Response(ValidationStatus, <<>>, "middleware", "ValidationError", 0, 0, 0)
    ELSE LET c == CacheRepoGet(rows, ser.value[1].city, ser.value[1].date) IN
      IF c.raised THEN Response(500, <<>>, "middleware", "unhandled", 0, 0, 0)
      ELSE IF c.found
           THEN Response(200, <<Num(c.row[1].min_temperature), Num(c.row[1].max_temperature)>>,
                         "middleware", "none", 0, 0, 0)
           ELSE ForecastWeatherView_get(rows, q, geo, fc)
  ELSE ForecastWeatherView_get(rows, q, geo, fc)

\* ForecastWeatherView.post: [rows: the table afterwards, response]
ForecastWeatherView_post(rows, q) ==
  LET ser == ForecastCacheWeatherSerializer(q) IN
  IF ~ser.ok
  THEN [rows |-> rows,
        response |-> Response(ValidationStatus, <<>>, "view", "ValidationError", 0, 0, 0)]
  ELSE LET u == create_or_update(rows, ser.value[1]) IN
    IF u.raised
    THEN [rows |-> rows, response |-> Response(500, <<>>, "view", "unhandled", 0, 0, 0)]
    ELSE [rows |-> u.rows, response |-> Response(200, <<u.created>>, "view", "none", 0, 0, 0)]

(* ------------------------------- inputs ------------------------------- *)

\* a city name of exactly max_length characters
CityA == [i \in 1..MaxCityLength |-> "a"]

\* the same name sent with blanks around it
CityPadded == <<" ">> \o CityA \o <<" ">>

\* one character too many
CityLong == [i \in 1..(MaxCityLength + 1) |-> "a"]

CityInputs == {Absent, Some(CityA), Some(CityPadded), Some(<<" ">>), Some(CityLong)}

\* days from today of the dates POST requests carry
DateOffsets == {-1, 0, WindowDays, WindowDays + 1}

\* days from today of the dates GET requests carry
GetDateOffsets == DateOffsets \cup {1, ForecastDays - 1}

\* absent, the offsets in DD.MM.YYYY, a day that is no calendar day, and
\* today in YYYY-MM-DD
DateInputs ==
  {Absent, Some(<<".", 30, 2, Today.year>>), Some(IsoString(Today))}
    \cup {Some(WireString(AddDays(Today, k))) : k \in DateOffsets}

\* the date parameters of GET /forecast
GetDateInputs == DateInputs \cup {Some(WireString(AddDays(Today, k))) : k \in GetDateOffsets}

TempInputs == {Absent} \cup {Some(t) : t \in 0..MaxTemp}

Fault(f) == [fault |-> f, results |-> Absent]

GeoResult(lat, lon, tz) == [latitude |-> lat, longitude |-> lon, timezone |-> tz]

GeoOk(results) == [fault |-> "none", results |-> results]

\* a geocoding answer with one complete result
GeoGood == GeoOk(Some(<<GeoResult(Some(52), Some(13), Some("Europe/Berlin"))>>))

GeoAnswers ==
  {Fault(f) : f \in TransportFaults}
    \cup {GeoOk(Absent), GeoOk(Some(<<>>)), GeoGood,
          GeoOk(Some(<<GeoResult(Some(52), Some(13), Absent)>>)),
          GeoOk(Some(<<GeoResult(Absent, Some(13), Some("Europe/Berlin"))>>)),
          GeoOk(Some(<<GeoResult(Some(52), Absent, Some("Europe/Berlin"))>>))}

FcFault(f) == [fault |-> f, daily |-> Absent]

\* a daily series of n days from start, its min array cut to nmin entries and
\* its max array to nmax, with nulls in place of numbers when nulls is set
Daily(start, n, nmin, nmax, nulls) ==
  [fault |-> "none",
   daily |-> Some([time |-> [i \in 1..n |-> IsoString(AddDays(start, i - 1))],
                   temperature_2m_min |-> [i \in 1..nmin |-> IF nulls /\ i = 1 THEN Null ELSE Num(i)],
                   temperature_2m_max |-> [i \in 1..nmax |-> IF nulls /\ i = n THEN Null ELSE Num(i + n)]])]

\* the series lengths and cuts tried: the length asked for, complete, with an
\* array missing, one entry short, and carrying nulls
SeriesShapes ==
  {<<ForecastDays, ForecastDays, ForecastDays, FALSE>>,
   <<ForecastDays, 0, ForecastDays, FALSE>>,
   <<ForecastDays, ForecastDays, 0, FALSE>>,
   <<ForecastDays, ForecastDays - 1, ForecastDays, FALSE>>,
   <<ForecastDays, ForecastDays, ForecastDays - 1, FALSE>>,
   <<ForecastDays, ForecastDays, ForecastDays, TRUE>>,
   <<0, ForecastDays, ForecastDays, FALSE>>}

\* the series starts on the server's today or, the place being ahead of the
\* server's clock, on the day after
ForecastAnswers ==
  {FcFault(f) : f \in TransportFaults}
    \cup {[fault |-> "none", daily |-> Absent]}
    \cup {Daily(start, sh[1], sh[2], sh[3], sh[4]) : start \in {Today, NextDay(Today)}, sh \in SeriesShapes}

WxFault(f) == [fault |-> f, current_weather |-> Absent]

CurrentAnswers ==
  {WxFault(f) : f \in TransportFaults}
    \cup {[fault |-> "none", current_weather |-> Absent],
          [fault |-> "none", current_weather |-> Some([temperature |-> Absent])],
          [fault |-> "none", current_weather |-> Some([temperature |-> Some(Num(5))])],
          [fault |-> "none", current_weather |-> Some([temperature |-> Some(Null)])]}

(* -------------------------------- state ------------------------------- *)

VARIABLES
  cache,    \* the rows of table Cache, in insertion order
  req,      \* the request whose response is being sent, with the upstream answers it drew
  resp,     \* the response to it
  written,  \* history: per (city, date), the temperatures of the last POST answered 200
  pc,       \* per worker: "idle", or "insert" inside update_or_create
  pending,  \* per worker: the POST it is inside of
  svc       \* a provider list's answers and what WeatherService made of them

vars == <<cache, req, resp, written, pc, pending, svc>>

Workers == {"w1", "w2"}

NoRequest ==
  [op |-> "none", city |-> Absent, date |-> Absent, min_temperature |-> Absent,
   max_temperature |-> Absent, path_matches |-> FALSE, geo |-> Absent, upstream |-> Absent]

NoResponse == Response(0, <<>>, "none", "none", 0, 0, 0)

Init ==
  /\ cache = <<>>
  /\ req = NoRequest
  /\ resp = NoResponse
  /\ written = {}
  /\ pc = [w \in Workers |-> "idle"]
  /\ pending = [w \in Workers |-> <<>>]
  /\ svc = [answers |-> <<>>, result |-> <<>>]

\* the request and its response become the ones observed
Handled(op, q, path_matches, geo, upstream, response) ==
  /\ req' = [NoRequest EXCEPT !.op = op, !.city = q.city, !.date = q.date,
                              !.min_temperature = q.min_temperature,
                              !.max_temperature = q.max_temperature,
                              !.path_matches = path_matches,
                              !.geo = geo, !.upstream = upstream]
  /\ resp' = response

Query(city, date, min, max) ==
  [city |-> city, date |-> date, min_temperature |-> min, max_temperature |-> max]

\* the history after a POST with payload attrs was answered 200
Wrote(attrs) ==
  {w \in written : w.city # attrs.city \/ w.date # attrs.date}
    \cup {Row(attrs.city, attrs.date, attrs.min_temperature, attrs.max_temperature)}

(* ------------------------------- actions ------------------------------ *)

\* GET /current.  An upstream answer is drawn only for a call that is made.
GetCurrent ==
  /\ req = NoRequest
  /\ \E c \in CityInputs :
       LET q == Query(c, Absent, Absent, Absent)
           r0 == CurrentWeatherView_get(q, GeoGood, WxFault("HTTPError"))
       IN IF r0.geo_calls = 0 THEN Handled("GET /current", q, FALSE, Absent, Absent, r0)
          ELSE \E g \in GeoAnswers :
            LET r1 == CurrentWeatherView_get(q, g, WxFault("HTTPError")) IN
            IF r1.forecast_calls = 0 THEN Handled("GET /current", q, FALSE, Some(g), Absent, r1)
            ELSE \E w \in CurrentAnswers :
              Handled("GET /current", q, FALSE, Some(g), Some(w), CurrentWeatherView_get(q, g, w))
  /\ UNCHANGED <<cache, written, pc, pending, svc>>

\* GET /forecast through the middleware, for parameters from the given sets
GetForecastOf(cities, dates) ==
  /\ req = NoRequest
  /\ \E c \in cities, d \in dates, pm \in BOOLEAN :
       LET q == Query(c, d, Absent, Absent)
           r0 == CacheMiddleware(cache, pm, q, GeoGood, FcFault("HTTPError"))
       IN IF r0.geo_calls = 0 THEN Handled("GET /forecast", q, pm, Absent, Absent, r0)
          ELSE \E g \in GeoAnswers :
            LET r1 == CacheMiddleware(cache, pm, q, g, FcFault("HTTPError")) IN
            IF r1.forecast_calls = 0 THEN Handled("GET /forecast", q, pm, Some(g), Absent, r1)
            ELSE \E f \in ForecastAnswers :
              Handled("GET /forecast", q, pm, Some(g), Some(f), CacheMiddleware(cache, pm, q, g, f))
  /\ UNCHANGED <<cache, written, pc, pending, svc>>

GetForecast == GetForecastOf(CityInputs, GetDateInputs)

\* POST /forecast handled start to end with no other request in between
PostForecast ==
  /\ req = NoRequest
  /\ \E c \in CityInputs, d \in DateInputs, lo \in TempInputs, hi \in TempInputs :
       LET q == Query(c, d, lo, hi)
           out == ForecastWeatherView_post(cache, q)
       IN /\ Len(out.rows) <= MaxRows
          /\ cache' = out.rows
          /\ written' = IF out.response.status = 200
                        THEN Wrote(ForecastCacheWeatherSerializer(q).value[1])
                        ELSE written
          /\ Handled("POST /forecast", q, FALSE, Absent, Absent, out.response)
  /\ UNCHANGED <<pc, pending, svc>>

\* the response is sent; nothing of the request is kept
Complete ==
  /\ req # NoRequest
  /\ req' = NoRequest
  /\ resp' = NoResponse
  /\ UNCHANGED <<cache, written, pc, pending, svc>>

Next == GetCurrent \/ GetForecast \/ PostForecast \/ Complete

Spec == Init /\ [][Next]_vars

(* ------------------- POST requests handled side by side ---------------- *)

\* the parameters the workers' requests carry: one key, every temperature
RaceCities == {Some(CityA)}

RaceDates == {Some(WireString(Today))}

\* A worker starts a POST: validation, then update_or_create's lookup.  A row
\* found is updated under its lock; with none found the worker goes on to
\* insert, and nothing keeps another worker from looking up in between.
PostBegin(w) ==
  /\ req = NoRequest
  /\ pc[w] = "idle"
  /\ \E c \in RaceCities, d \in RaceDates, lo \in TempInputs, hi \in TempInputs :
       LET q == Query(c, d, lo, hi)
           ser == ForecastCacheWeatherSerializer(q)
           m == Matching(cache, ser.value[1].city, ser.value[1].date)
       IN IF ~ser.ok
          THEN /\ Handled("POST /forecast", q, FALSE, Absent, Absent,
                          Response(ValidationStatus, <<>>, "view", "ValidationError", 0, 0, 0))
               /\ UNCHANGED <<cache, written, pc, pending>>
          ELSE IF m = {}
          THEN /\ Len(cache) + Cardinality({v \in Workers : pc[v] = "insert"}) < MaxRows
               /\ pc' = [pc EXCEPT ![w] = "insert"]
               /\ pending' = [pending EXCEPT ![w] = <<q>>]
               /\ UNCHANGED <<cache, written, req, resp>>
          ELSE IF Cardinality(m) = 1
          THEN /\ cache' = UpdateRow(cache, CHOOSE i \in m : TRUE, ser.value[1])
               /\ written' = Wrote(ser.value[1])
               /\ Handled("POST /forecast", q, FALSE, Absent, Absent,
                          Response(200, <<FALSE>>, "view", "none", 0, 0, 0))
               /\ UNCHANGED <<pc, pending>>
          ELSE /\ Handled("POST /forecast", q, FALSE, Absent, Absent,
                          Response(500, <<>>, "view", "unhandled", 0, 0, 0))
               /\ UNCHANGED <<cache, written, pc, pending>>
  /\ UNCHANGED svc

\* the worker inserts the row its lookup did not find and answers
PostInsert(w) ==
  /\ req = NoRequest
  /\ pc[w] = "insert"
  /\ LET q == pending[w][1]
         attrs == ForecastCacheWeatherSerializer(q).value[1]
     IN /\ cache' = InsertRow(cache, attrs)
        /\ written' = Wrote(attrs)
        /\ Handled("POST /forecast", q, FALSE, Absent, Absent,
                   Response(200, <<TRUE>>, "view", "none", 0, 0, 0))
  /\ pc' = [pc EXCEPT ![w] = "idle"]
  /\ pending' = [pending EXCEPT ![w] = <<>>]
  /\ UNCHANGED svc

\* a GET /forecast for the key the workers write
RaceGetForecast == GetForecastOf(RaceCities, RaceDates)

RaceNext ==
  \/ \E w \in Workers : PostBegin(w)
  \/ \E w \in Workers : PostInsert(w)
  \/ RaceGetForecast
  \/ Complete

RaceSpec == Init /\ [][RaceNext]_vars

(* ------------------- the provider chain, any providers ----------------- *)

\* providers a list holds at most
MaxProviders == 3

\* what one provider may answer: found (two data values), not found with and
\* without data, unavailable, or an exception
ProviderAnswers ==
  {Outcome(200, <<Num(1)>>, 0, 0), Outcome(200, <<Num(2)>>, 0, 0),
   Outcome(404, <<>>, 0, 0), Outcome(404, <<Num(3)>>, 0, 0),
   Outcome(503, <<>>, 0, 0), Raised(0, 0)}

AnswerLists == UNION {[1..n -> ProviderAnswers] : n \in 1..MaxProviders}

\* the service is asked over a list of providers answering as given
AskProviders ==
  /\ svc.result = <<>>
  /\ \E answers \in AnswerLists :
       svc' = [answers |-> answers, result |-> <<WeatherService(answers)>>]
  /\ UNCHANGED <<cache, req, resp, written, pc, pending>>

ChainNext == AskProviders

ChainSpec == Init /\ [][ChainNext]_vars

(* ------------------------------- claims ------------------------------- *)

\* the city parameters that name the city CityA
GoodCities == {Some(CityA), Some(CityPadded)}

\* the date parameters in DD.MM.YYYY whose day is k days from today, k in ks
DatesAt(ks) == {Some(<<".", AddDays(Today, k).day, AddDays(Today, k).month, AddDays(Today, k).year>>) : k \in ks}

\* the window of the specification: today .. today + 10
InWindow == DatesAt(0..10)

\* the date object a well-formed date parameter names
DateOf(param) == [year |-> param[1][4], month |-> param[1][3], day |-> param[1][2]]

\* the rows of a table with the key (CityA, date)
KeyRows(rows, date) == {i \in DOMAIN rows : rows[i].city = CityA /\ rows[i].date = date}

\* a GET /forecast whose parameters are valid
ValidForecastGet(rq) ==
  rq.op = "GET /forecast" /\ rq.city \in GoodCities /\ rq.date \in InWindow

\* a POST /forecast whose payload is valid
ValidPost(rq) ==
  /\ rq.op = "POST /forecast"
  /\ rq.city \in GoodCities
  /\ rq.date \in InWindow
  /\ rq.min_temperature # Absent
  /\ rq.max_temperature # Absent
  /\ rq.min_temperature[1] <= rq.max_temperature[1]

\* C1: a valid GET /forecast for a (city, date) the override store holds a
\* record for is answered 200 with that record's temperatures, and neither
\* the geocoding nor the forecast endpoint is called for it.
C1_OverrideShortCircuits ==
  (ValidForecastGet(req) /\ KeyRows(cache, DateOf(req.date)) # {}) =>
    /\ resp.status = 200
    /\ \E i \in KeyRows(cache, DateOf(req.date)) :
         resp.data = <<<<cache[i].min_temperature>>, <<cache[i].max_temperature>>>>
    /\ resp.geo_calls = 0
    /\ resp.forecast_calls = 0
    /\ req.geo = Absent
    /\ req.upstream = Absent

\* C1 witness: the view, not the middleware, answered from the store
C1_Witness ==
  /\ ValidForecastGet(req)
  /\ ~req.path_matches
  /\ KeyRows(cache, DateOf(req.date)) # {}
  /\ resp.status = 200
  /\ resp.by = "view"

\* C2: a valid POST leaves one record for its key, holding the payload's
\* temperatures; posting what the store already holds changes nothing; and a
\* valid GET for a key that was written returns the temperatures of the last
\* POST for that key.
C2_RoundTrip ==
  [][/\ (ValidPost(req') /\ req = NoRequest) =>
          /\ resp'.status = 200
          /\ \E i \in DOMAIN cache' :
               /\ KeyRows(cache', DateOf(req'.date)) = {i}
               /\ cache'[i].min_temperature = req'.min_temperature[1]
               /\ cache'[i].max_temperature = req'.max_temperature[1]
          /\ (\E i \in KeyRows(cache, DateOf(req'.date)) :
                /\ cache[i].min_temperature = req'.min_temperature[1]
                /\ cache[i].max_temperature = req'.max_temperature[1]) => cache' = cache
     /\ ValidForecastGet(req') =>
          \A w \in written' :
            (w.city = CityA /\ w.date = DateOf(req'.date)) =>
              /\ resp'.status = 200
              /\ resp'.data = <<<<w.min_temperature>>, <<w.max_temperature>>>>
    ]_vars

\* C2 witness: a GET returns what a POST wrote for its key, the store holding
\* a record for another key too
C2_Witness ==
  /\ ValidForecastGet(req)
  /\ resp.status = 200
  /\ resp.data = <<<<0>>, <<1>>>>
  /\ \E w \in written : w.date = DateOf(req.date) /\ w.min_temperature = 0 /\ w.max_temperature = 1
  /\ Len(cache) = 2

\* the fault of the upstream call a GET made last ("none": it answered, or
\* no call was made)
LastFault(rq) ==
  IF rq.upstream # Absent THEN rq.upstream[1].fault
  ELSE IF rq.geo # Absent THEN rq.geo[1].fault
  ELSE "none"

\* the upstream answered the last call 200 with a payload lacking what the
\* provider reads from it
Malformed(rq) ==
  /\ LastFault(rq) = "none"
  /\ \/ /\ rq.geo # Absent
        /\ rq.geo[1].results # Absent
        /\ rq.geo[1].results[1] # <<>>
        /\ rq.geo[1].results[1][1].latitude = Absent
     \/ /\ rq.op = "GET /current"
        /\ rq.upstream # Absent
        /\ \/ rq.upstream[1].current_weather = Absent
           \/ rq.upstream[1].current_weather[1].temperature = Absent
     \/ /\ rq.op = "GET /forecast"
        /\ rq.upstream # Absent
        /\ \/ rq.upstream[1].daily = Absent
           \/ rq.upstream[1].daily[1].time = <<>>
           \/ rq.upstream[1].daily[1].temperature_2m_min = <<>>
           \/ rq.upstream[1].daily[1].temperature_2m_max = <<>>

\* C3: for GET /current and GET /forecast a connection failure of the
\* upstream is answered 503, a timeout 504, a malformed 200 payload or any
\* other transport failure 500, and none of them 404 or 200.
C3_StatusPerFailure ==
  (req.op \in {"GET /current", "GET /forecast"}) =>
    /\ LastFault(req) = "ConnectionError" => resp.status = 503
    /\ LastFault(req) \in {"ConnectTimeout", "ReadTimeout"} => resp.status = 504
    /\ LastFault(req) \in {"HTTPError", "JSONDecodeError"} => resp.status = 500
    /\ Malformed(req) => resp.status = 500
    /\ (LastFault(req) # "none" \/ Malformed(req)) => resp.status \notin {200, 404}

\* C4: GET /forecast and POST /forecast, their other parameters valid, accept
\* a date if and only if it lies in today .. today + 10; a date outside is
\* answered 400 as a validation error.
C4_DateWindow ==
  /\ (req.op = "GET /forecast" /\ req.city \in GoodCities /\ req.date \in DatesAt(-1..11)) =>
       IF req.date \in InWindow
       THEN resp.error # "ValidationError"
       ELSE resp.status = 400 /\ resp.error = "ValidationError"
  /\ (/\ req.op = "POST /forecast"
      /\ req.city \in GoodCities
      /\ req.date \in DatesAt(-1..11)
      /\ req.min_temperature # Absent
      /\ req.max_temperature # Absent
      /\ req.min_temperature[1] <= req.max_temperature[1]) =>
       IF req.date \in InWindow
       THEN resp.status = 200
       ELSE resp.status = 400 /\ resp.error = "ValidationError"

\* C4 witness: a POST dated today + 10 was accepted
C4_Witness ==
  /\ req.op = "POST /forecast"
  /\ req.date \in DatesAt({10})
  /\ resp.status = 200
  /\ \E i \in DOMAIN cache : cache[i].date = [year |-> 2024, month |-> 3, day |-> 1]

\* C5: a POST /forecast whose min_temperature is above its max_temperature is
\* answered 400 as a validation error whatever its city and date, and leaves
\* the store as it was; equal temperatures with a valid city and date are
\* accepted.
C5_MinAboveMaxRejected ==
  [][(req = NoRequest /\ req'.op = "POST /forecast"
        /\ req'.min_temperature # Absent /\ req'.max_temperature # Absent) =>
       /\ (req'.min_temperature[1] > req'.max_temperature[1]) =>
            /\ resp'.status = 400
            /\ resp'.error = "ValidationError"
            /\ cache' = cache
       /\ (/\ req'.min_temperature[1] = req'.max_temperature[1]
           /\ req'.city \in GoodCities
           /\ req'.date \in InWindow) => resp'.status = 200
    ]_vars

\* C5 witness: min above max was rejected on a payload valid otherwise, the
\* store holding a record
C5_Witness ==
  /\ req.op = "POST /forecast"
  /\ req.city \in GoodCities
  /\ req.date \in InWindow
  /\ req.min_temperature = <<1>>
  /\ req.max_temperature = <<0>>
  /\ resp.status = 400
  /\ cache # <<>>

\* "YYYY-MM-DD" of the day a well-formed date parameter names
IsoOf(param) == <<"-", param[1][4], param[1][3], param[1][2]>>

\* C6: a valid GET /forecast with no override whose city geocodes and whose
\* forecast call returns a daily series is answered 200 with the min and max
\* the series holds at the index of the entry equal to the requested date
\* (YYYY-MM-DD), and 404 when no entry equals it.
C6_ExactDateMatch ==
  (/\ req.op = "GET /forecast"
   /\ req.upstream # Absent
   /\ req.upstream[1].fault = "none"
   /\ req.upstream[1].daily # Absent
   /\ req.upstream[1].daily[1].time # <<>>
   /\ req.upstream[1].daily[1].temperature_2m_min # <<>>
   /\ req.upstream[1].daily[1].temperature_2m_max # <<>>) =>
    LET dates == req.upstream[1].daily[1].time
        mins == req.upstream[1].daily[1].temperature_2m_min
        maxs == req.upstream[1].daily[1].temperature_2m_max
        hits == {i \in DOMAIN dates : dates[i] = IsoOf(req.date)}
    IN /\ hits = {} => resp.status = 404
       /\ \A i \in hits :
            (i \in DOMAIN mins /\ i \in DOMAIN maxs /\ mins[i] # <<>> /\ maxs[i] # <<>>) =>
              resp.status = 200 /\ resp.data = <<mins[i], maxs[i]>>

\* C6 witness: the last entry of a ten-day series matched
C6_Witness ==
  /\ req.op = "GET /forecast"
  /\ req.upstream # Absent
  /\ req.upstream[1].daily # Absent
  /\ Len(req.upstream[1].daily[1].time) = 10
  /\ req.upstream[1].daily[1].time[10] = IsoOf(req.date)
  /\ resp.status = 200
  /\ resp.data = <<<<10>>, <<20>>>>

\* C7: a valid POST /forecast handled on its own is an upsert on (city,
\* date): with no record for the key one is created and the answer is 200
\* with created true, with a record its temperatures are replaced and the
\* answer is 200 with created false; afterwards the key has one record and
\* the records of the other keys are as before.
C7_Upsert ==
  [][(req = NoRequest /\ ValidPost(req')) =>
       LET date == DateOf(req'.date)
           Other(r) == ~(r.city = CityA /\ r.date = date)
       IN /\ resp'.status = 200
          /\ resp'.data = <<KeyRows(cache, date) = {}>>
          /\ Cardinality(KeyRows(cache', date)) = 1
          /\ \A i \in KeyRows(cache', date) :
               /\ cache'[i].min_temperature = req'.min_temperature[1]
               /\ cache'[i].max_temperature = req'.max_temperature[1]
          /\ KeyRows(cache, date) \subseteq KeyRows(cache', date)
          /\ SelectSeq(cache', Other) = SelectSeq(cache, Other)
    ]_vars

\* C7 witness: a record was replaced while another key's record was held
C7_Witness ==
  /\ ValidPost(req)
  /\ resp.status = 200
  /\ resp.data = <<FALSE>>
  /\ Len(cache) = 2
  /\ cache[1].date # cache[2].date

\* the status a geocoding answer other than a success stands for
GeoFailure(geo) ==
  IF geo.fault # "none" THEN get_geocoding(geo).status
  ELSE IF geo.results = Absent \/ geo.results[1] = <<>> THEN 404
  ELSE 0

\* C8: in both GET operations a geocoding outcome other than success is what
\* the provider returns, with the same status, and the forecast endpoint is
\* not called; GET /current for a city with no geocoding result is answered
\* 404.
C8_GeocodingFailurePropagates ==
  (req.op \in {"GET /current", "GET /forecast"} /\ req.geo # Absent
     /\ GeoFailure(req.geo[1]) # 0) =>
    /\ resp.provider_status = GeoFailure(req.geo[1])
    /\ resp.geo_calls = 1
    /\ resp.forecast_calls = 0
    /\ req.upstream = Absent
    /\ (req.op = "GET /current" /\ GeoFailure(req.geo[1]) = 404) => resp.status = 404

\* C8 witness: GET /current, the geocoding answer holding an empty result list
C8_Witness ==
  /\ req.op = "GET /current"
  /\ req.geo = <<[fault |-> "none", results |-> <<<<>>>>]>>
  /\ resp.status = 404
  /\ resp.forecast_calls = 0

\* C9: over any non-empty provider list, all providers answering (status,
\* data), the service asks in list order, returns status and data of the
\* first provider answering 200 and asks none after it, and with no 200
\* returns the last provider's status with no data.
C9_FirstSuccessElseLast ==
  (svc.result # <<>>) =>
    LET a == svc.answers
        r == svc.result[1]
        ok == {i \in DOMAIN a : a[i].status = 200}
        first == CHOOSE i \in ok : \A j \in ok : i <= j
    IN (\A i \in DOMAIN a : ~a[i].raised) =>
         /\ ~r.raised
         /\ ok # {} => r.status = 200 /\ r.data = a[first].data /\ r.queried = first
         /\ ok = {} => r.status = a[Len(a)].status /\ r.data = <<>> /\ r.queried = Len(a)

\* C9 witness: the first provider answered 404, as the override source does
\* when it holds nothing, and the second one's 200 is the result
C9_Witness ==
  /\ svc.result # <<>>
  /\ Len(svc.answers) = 3
  /\ svc.answers[1].status = 404
  /\ svc.answers[2].status = 200
  /\ svc.result[1].status = 200
  /\ svc.result[1].queried = 2

\* C10: however POST requests for one (city, date) interleave, once they are
\* all answered the store holds one record for the key, and a GET /forecast
\* for the key never fails because several records match.
C10_OneRecordPerKey ==
  /\ (\A w \in Workers : pc[w] = "idle") =>
       \A i, j \in DOMAIN cache :
         (cache[i].city = cache[j].city /\ cache[i].date = cache[j].date) => i = j
  /\ (ValidForecastGet(req) /\ KeyRows(cache, DateOf(req.date)) # {}) => resp.status = 200

\* C11: the geocoding call and both forecast calls classify a transport
\* fault alike: a connection failure 503, a timeout 504 whether it expires
\* while connecting or while reading, any other failure 500; no timeout is
\* classified 503.
C11_FaultClassification ==
  (req.op \in {"GET /current", "GET /forecast"} /\ LastFault(req) # "none") =>
    /\ LastFault(req) = "ConnectionError" => resp.provider_status = 503
    /\ LastFault(req) \in {"ConnectTimeout", "ReadTimeout"} => resp.provider_status = 504
    /\ LastFault(req) \in {"HTTPError", "JSONDecodeError"} => resp.provider_status = 500
    /\ LastFault(req) \in {"ConnectTimeout", "ReadTimeout"} => resp.provider_status # 503

\* the geocoding answer's first result lacks a coordinate
GeoLacksCoordinate(rq) ==
  /\ rq.geo # Absent
  /\ rq.geo[1].fault = "none"
  /\ rq.geo[1].results # Absent
  /\ rq.geo[1].results[1] # <<>>
  /\ \/ rq.geo[1].results[1][1].latitude = Absent
     \/ rq.geo[1].results[1][1].longitude = Absent

\* the current-weather payload lacks current_weather or its temperature
CurrentLacksTemperature(rq) ==
  /\ rq.op = "GET /current"
  /\ rq.upstream # Absent
  /\ rq.upstream[1].fault = "none"
  /\ \/ rq.upstream[1].current_weather = Absent
     \/ rq.upstream[1].current_weather[1].temperature = Absent

\* the forecast payload lacks daily or one of its arrays, or holds an empty one
DailyMissing(rq) ==
  /\ rq.op = "GET /forecast"
  /\ rq.upstream # Absent
  /\ rq.upstream[1].fault = "none"
  /\ \/ rq.upstream[1].daily = Absent
     \/ rq.upstream[1].daily[1].time = <<>>
     \/ rq.upstream[1].daily[1].temperature_2m_min = <<>>
     \/ rq.upstream[1].daily[1].temperature_2m_max = <<>>

\* the forecast payload's three arrays hold entries, and its min or max array
\* ends before the position of the first entry equal to the requested date
ShortAtMatch(rq) ==
  /\ rq.op = "GET /forecast"
  /\ rq.upstream # Absent
  /\ rq.upstream[1].fault = "none"
  /\ ~DailyMissing(rq)
  /\ LET daily == rq.upstream[1].daily[1]
         hits == {i \in DOMAIN daily.time : daily.time[i] = IsoOf(rq.date)}
     IN \E i \in hits :
          /\ \A j \in hits : i <= j
          /\ i > Len(daily.temperature_2m_min) \/ i > Len(daily.temperature_2m_max)

\* C12: an upstream answer with HTTP 200 whose expected fields are absent or
\* malformed (a geocoding result without latitude or longitude, a payload
\* without current_weather or temperature, missing or empty daily arrays, a
\* min or max array ending before the matching date) makes the provider
\* return (500, None), and nothing is raised.
C12_MalformedIs500 ==
  (\/ GeoLacksCoordinate(req)
   \/ CurrentLacksTemperature(req)
   \/ DailyMissing(req)
   \/ ShortAtMatch(req)) =>
    /\ resp.provider_status = 500
    /\ resp.error # "unhandled"
    /\ resp.data = <<>>

\* the geocoding call was made and answered with a result holding both
\* coordinates
GeoSucceeded(rq) ==
  /\ rq.geo # Absent
  /\ rq.geo[1].fault = "none"
  /\ rq.geo[1].results # Absent
  /\ rq.geo[1].results[1] # <<>>
  /\ rq.geo[1].results[1][1].latitude # Absent
  /\ rq.geo[1].results[1][1].longitude # Absent

\* a request whose parameters the specification's schema refuses
InvalidRequest(rq) ==
  \/ rq.op = "GET /current" /\ rq.city \notin GoodCities
  \/ rq.op = "GET /forecast" /\ (rq.city \notin GoodCities \/ rq.date \notin InWindow)
  \/ rq.op = "POST /forecast" /\ ~ValidPost(rq)

\* C13: handling one request makes at most one geocoding call and at most
\* one forecast-endpoint call, the forecast call only after a geocoding call
\* that succeeded; a request that fails validation is answered 400 with no
\* upstream call and no store write; and a request answered with a failure
\* made no call beyond those (nothing is asked again).
C13_AtMostOneCallEach ==
  [][(req = NoRequest /\ req'.op # "none") =>
       /\ resp'.geo_calls \in 0..1
       /\ resp'.forecast_calls \in 0..1
       /\ (resp'.geo_calls = 0) <=> (req'.geo = Absent)
       /\ (resp'.forecast_calls = 0) <=> (req'.upstream = Absent)
       /\ (resp'.forecast_calls = 1) => (resp'.geo_calls = 1 /\ GeoSucceeded(req'))
       /\ InvalidRequest(req') =>
            /\ resp'.status = 400
            /\ resp'.geo_calls = 0
            /\ resp'.forecast_calls = 0
            /\ cache' = cache
       /\ (req'.op = "POST /forecast") => (resp'.geo_calls = 0 /\ resp'.forecast_calls = 0)
    ]_vars

\* C13 witness: a GET /forecast whose forecast call timed out after one
\* geocoding call, the store holding a record of another date
C13_Witness ==
  /\ ValidForecastGet(req)
  /\ GeoSucceeded(req)
  /\ LastFault(req) = "ReadTimeout"
  /\ resp.provider_status = 504
  /\ resp.geo_calls = 1
  /\ resp.forecast_calls = 1
  /\ cache # <<>>

\* C14: whatever requests are handled, every record of the store has
\* min_temperature <= max_temperature, a GET leaves the store as it was, no
\* record is removed, and a record's values change only by a valid POST for
\* its (city, date).
C14_StoreInvariant ==
  [][/\ \A i \in DOMAIN cache' : cache'[i].min_temperature <= cache'[i].max_temperature
     /\ (req'.op \in {"GET /current", "GET /forecast"}) => cache' = cache
     /\ \A i \in DOMAIN cache :
          /\ i \in DOMAIN cache'
          /\ cache'[i].city = cache[i].city
          /\ cache'[i].date = cache[i].date
          /\ (cache'[i] # cache[i]) =>
               /\ req = NoRequest
               /\ ValidPost(req')
               /\ cache[i].city = CityA
               /\ cache[i].date = DateOf(req'.date)
    ]_vars

\* C14 witness: a GET /forecast for a date the store has no record of was
\* answered by the upstream, the store holding records of two other dates
\* with min below max
C14_Witness ==
  /\ ValidForecastGet(req)
  /\ KeyRows(cache, DateOf(req.date)) = {}
  /\ resp.status = 200
  /\ resp.forecast_calls = 1
  /\ Len(cache) = 2
  /\ \A i \in DOMAIN cache : cache[i].min_temperature < cache[i].max_temperature

\* the forecast call was answered with the series asked for: forecast_days
\* days from today on, a min and a max for each
FullSeries(rq) ==
  /\ rq.upstream # Absent
  /\ rq.upstream[1].fault = "none"
  /\ rq.upstream[1].daily # Absent
  /\ rq.upstream[1].daily[1].time = [i \in 1..ForecastDays |-> IsoString(AddDays(Today, i - 1))]
  /\ Len(rq.upstream[1].daily[1].temperature_2m_min) = ForecastDays
  /\ Len(rq.upstream[1].daily[1].temperature_2m_max) = ForecastDays

\* C15: every date validation accepts (today .. today + 10) lies in the
\* series asked for (forecast_days=10), so a valid GET /forecast with no
\* override, a city that geocodes and the full series answered is never
\* answered 404.
C15_ValidatedDateInSeries ==
  (/\ ValidForecastGet(req)
   /\ KeyRows(cache, DateOf(req.date)) = {}
   /\ GeoSucceeded(req)
   /\ FullSeries(req)) => resp.status # 404

====
